---- MODULE Spec2Model ----
(***************************************************************************)
(* A model of scripts/build.py, the static-site build script.              *)
(*                                                                         *)
(* Text is a sequence of tokens.  A token is one character ("a", "<",      *)
(* "\n") or one fixed piece of text that the script itself writes (a       *)
(* marker comment, a tag of a card template, an HTML entity produced by    *)
(* html.escape).  Python's str operations are modelled on these sequences: *)
(* find is a search for a subsequence, slicing is SubSeq, + is \o.         *)
(***************************************************************************)
EXTENDS Integers, Sequences, FiniteSets, TLC

VARIABLES
    (* update_html_file applied to one document *)
    sp_orig,        \* the document before the first call
    sp_html,        \* the document on disk
    sp_before,      \* the document on disk just before the last call
    sp_ret,         \* return value of the last call ("none" before any call)
    sp_spliced,     \* contents of the calls that returned True, in order
    sp_warnings,    \* number of warnings printed
    sp_writes,      \* number of times the document was written
    (* one card renderer applied to one record *)
    cd_renderer,    \* which renderer is called
    cd_item,        \* the record (item), or the arguments of the call
    cd_metadata,    \* the fetched metadata passed with it
    cd_html,        \* the fragment returned
    cd_done,        \* whether the renderer has returned
    (* markdown_to_html applied to one text *)
    md_lines,       \* the lines of the Markdown text
    md_html,        \* the HTML returned
    md_done,        \* whether markdown_to_html has returned
    (* the excerpt of one Writing *)
    ex_markdown,    \* the Markdown body of the Writing
    ex_content,     \* parsed['content']: the rendered body
    ex_excerpt,     \* excerpt
    ex_done,        \* whether the excerpt has been computed
    (* slugify applied to one title, and to its own result *)
    sl_text,        \* text: the title
    sl_slug,        \* slugify(text)
    sl_again,       \* slugify(slugify(text))
    sl_done,        \* whether slugify has returned
    (* one run of build() *)
    pc,                 \* where build() is: the statement it executes next
    exists,             \* what exists() returned for each input, once asked
    finds,              \* finds, as json.load returned it
    pubs,               \* pubs
    projects,           \* projects
    md_files,           \* md_files: the text of each file, in glob order
    idx,                \* position of the running loop in its list
    all_masonry_cards,  \* all_masonry_cards
    pub_page_cards,     \* pub_page_cards
    project_page_cards, \* project_page_cards
    writings,           \* writings
    files,              \* the four target documents on disk
    pages,              \* the generated pages: slug -> page_html
    printed,            \* the warnings and errors printed
    http_log,           \* the HTTP GETs sent and the delays slept, in order
    fetched,            \* what each call of fetch_metadata returned, in order
    returned,           \* what each call of update_html_file returned
    raised              \* the exception that ended the run, if one did

spliceVars == <<sp_orig, sp_html, sp_before, sp_ret, sp_spliced, sp_warnings, sp_writes>>

cardVars == <<cd_renderer, cd_item, cd_metadata, cd_html, cd_done>>

mdVars == <<md_lines, md_html, md_done>>

exVars == <<ex_markdown, ex_content, ex_excerpt, ex_done>>

buildVars ==
    <<pc, exists, finds, pubs, projects, md_files, idx, all_masonry_cards, pub_page_cards,
      project_page_cards, writings, files, pages, printed, http_log, fetched, returned,
      raised>>

slugVars == <<sl_text, sl_slug, sl_again, sl_done>>

vars == <<spliceVars, cardVars, mdVars, exVars, slugVars, buildVars>>

\* No exception has left a function of the script
NotRaised == [exception |-> "none", in |-> "none"]

\* build() is not running
IdleBuild ==
    /\ pc = "idle"
    /\ exists = <<>>
    /\ finds = <<>>
    /\ pubs = <<>>
    /\ projects = <<>>
    /\ md_files = <<>>
    /\ idx = 0
    /\ all_masonry_cards = <<>>
    /\ pub_page_cards = <<>>
    /\ project_page_cards = <<>>
    /\ writings = <<>>
    /\ files = <<>>
    /\ pages = {}
    /\ printed = <<>>
    /\ http_log = <<>>
    /\ fetched = <<>>
    /\ returned = <<>>
    /\ raised = NotRaised

IdleSplice ==
    /\ sp_orig = <<>>
    /\ sp_html = <<>>
    /\ sp_before = <<>>
    /\ sp_ret = "none"
    /\ sp_spliced = <<>>
    /\ sp_warnings = 0
    /\ sp_writes = 0

IdleMd ==
    /\ md_lines = <<>>
    /\ md_html = <<>>
    /\ md_done = FALSE

IdleEx ==
    /\ ex_markdown = <<>>
    /\ ex_content = <<>>
    /\ ex_excerpt = <<>>
    /\ ex_done = FALSE

IdleSlug ==
    /\ sl_text = <<>>
    /\ sl_slug = <<>>
    /\ sl_again = <<>>
    /\ sl_done = FALSE

IdleCards ==
    /\ cd_renderer = "none"
    /\ cd_item = <<>>
    /\ cd_metadata = <<>>
    /\ cd_html = <<>>
    /\ cd_done = FALSE

----------------------------------------------------------------------------
(* Bounds of the model *)

MaxDocLen == 4
MaxContentLen == 1
MaxSplices == 2
MaxMdLines == 3
MaxPlain == 160
MaxEmph == 2
MaxRecords == 2
MaxTitleLen == 4

\* The length the excerpt is cut to
ExcerptLimit == 150

----------------------------------------------------------------------------
(* Sequences of tokens *)

RECURSIVE SeqsUpTo(_, _)
SeqsUpTo(S, n) ==
    IF n = 0 THEN {<<>>}
    ELSE LET shorter == SeqsUpTo(S, n - 1)
         IN  shorter \cup {Append(s, c) : s \in {t \in shorter : Len(t) = n - 1}, c \in S}

Take(s, n) == SubSeq(s, 1, IF n < Len(s) THEN n ELSE Len(s))

Drop(s, n) == SubSeq(s, n + 1, Len(s))

StartsWithAt(s, i, sub) ==
    /\ i + Len(sub) - 1 <= Len(s)
    /\ SubSeq(s, i, i + Len(sub) - 1) = sub

\* str.find: the 0-based index of the first occurrence of sub in s, or -1.
Find(s, sub) ==
    LET hits == {i \in 1..(Len(s) + 1) : StartsWithAt(s, i, sub)}
    IN  IF hits = {} THEN -1
        ELSE (CHOOSE i \in hits : \A j \in hits : i <= j) - 1

\* Absent: the value of a key a mapping does not have (dict.get gives the
\* default for it); AbsentList is the same for a key that holds a list.
None == <<"(absent)">>

AbsentList == <<None>>

\* dict.get(key, default) for a key that holds a string
Get(v, default) == IF v = None THEN default ELSE v

\* dict.get(key, default) for a key that holds a list
GetList(v, default) == IF v = AbsentList THEN default ELSE v

\* Python truth of a string: present and not empty.
Truthy(v) == v /= None /\ v /= <<>>

\* a or b
Or(a, b) == IF Truthy(a) THEN a ELSE b

RECURSIVE Join(_, _)
\* sep.join(list)
Join(list, sep) ==
    IF list = <<>> THEN <<>>
    ELSE IF Len(list) = 1 THEN list[1]
    ELSE list[1] \o sep \o Join(Tail(list), sep)

RECURSIVE Concat(_)
\* ''.join(list)
Concat(list) == IF list = <<>> THEN <<>> ELSE list[1] \o Concat(Tail(list))

LowerLetters ==
    <<"a", "b", "c", "d", "e", "f", "g", "h", "i", "j", "k", "l", "m",
      "n", "o", "p", "q", "r", "s", "t", "u", "v", "w", "x", "y", "z">>

UpperLetters ==
    <<"A", "B", "C", "D", "E", "F", "G", "H", "I", "J", "K", "L", "M",
      "N", "O", "P", "Q", "R", "S", "T", "U", "V", "W", "X", "Y", "Z">>

\* str.upper() of one character
Upper(c) ==
    IF \E i \in 1..26 : LowerLetters[i] = c
    THEN UpperLetters[CHOOSE i \in 1..26 : LowerLetters[i] = c]
    ELSE c

\* str.lower() of one character
Lower(c) ==
    IF \E i \in 1..26 : UpperLetters[i] = c
    THEN LowerLetters[CHOOSE i \in 1..26 : UpperLetters[i] = c]
    ELSE c

Count(s, sub) == Cardinality({i \in 1..Len(s) : StartsWithAt(s, i, sub)})

----------------------------------------------------------------------------
(* update_html_file *)

begin_marker(marker) == <<"<!-- BEGIN:" \o marker \o " -->">>

end_marker(marker) == <<"<!-- END:" \o marker \o " -->">>

\* Variant: the guard joins the two tests with "and" instead of "or".
update_html_file_and(html, marker, content) ==
    LET begin_index == Find(html, begin_marker(marker))
        end_index == Find(html, end_marker(marker))
    IN  IF begin_index = -1 /\ end_index = -1
        THEN [ret |-> "False", html |-> html, wrote |-> FALSE, warning |-> TRUE]
        ELSE LET before == Take(html, begin_index + Len(begin_marker(marker)))
                 after == Drop(html, IF end_index = -1 THEN Len(html) - 1 ELSE end_index)
             IN  [ret |-> "True",
                  html |-> before \o <<"\n">> \o content \o <<"\n        ">> \o after,
                  wrote |-> TRUE, warning |-> FALSE]

\* The result of update_html_file(filepath, marker, content) on a file that
\* holds html: the return value, the file afterwards, whether the file was
\* written and whether the warning was printed.
update_html_file(html, marker, content) ==
    LET begin_index == Find(html, begin_marker(marker))
        end_index == Find(html, end_marker(marker))
    IN  IF begin_index = -1 \/ end_index = -1
        THEN [ret |-> "False", html |-> html, wrote |-> FALSE, warning |-> TRUE]
        ELSE LET before == Take(html, begin_index + Len(begin_marker(marker)))
                 after == Drop(html, end_index)
             IN  [ret |-> "True",
                  html |-> before \o <<"\n">> \o content \o <<"\n        ">> \o after,
                  wrote |-> TRUE, warning |-> FALSE]

----------------------------------------------------------------------------
(* Specification SpecSplice: update_html_file called repeatedly on one     *)
(* document for the region "finds".                                        *)

SpMarker == "finds"

DocAlphabet == {begin_marker(SpMarker)[1], end_marker(SpMarker)[1], "x"}

ContentAlphabet == {"a", end_marker(SpMarker)[1]}

InitSplice ==
    /\ sp_orig \in SeqsUpTo(DocAlphabet, MaxDocLen)
    /\ sp_html = sp_orig
    /\ sp_before = sp_orig
    /\ sp_ret = "none"
    /\ sp_spliced = <<>>
    /\ sp_warnings = 0
    /\ sp_writes = 0
    /\ IdleCards
    /\ IdleMd
    /\ IdleEx
    /\ IdleSlug
    /\ IdleBuild

Splice(content) ==
    LET r == update_html_file(sp_html, SpMarker, content)
    IN  /\ sp_warnings + sp_writes < MaxSplices
        /\ sp_before' = sp_html
        /\ sp_html' = r.html
        /\ sp_ret' = r.ret
        /\ sp_spliced' = IF r.ret = "True" THEN Append(sp_spliced, content) ELSE sp_spliced
        /\ sp_warnings' = sp_warnings + (IF r.warning THEN 1 ELSE 0)
        /\ sp_writes' = sp_writes + (IF r.wrote THEN 1 ELSE 0)
        /\ UNCHANGED <<sp_orig, cardVars, mdVars, exVars, slugVars, buildVars>>

NextSplice == \E content \in SeqsUpTo(ContentAlphabet, MaxContentLen) : Splice(content)

SpecSplice == InitSplice /\ [][NextSplice]_vars

MarkerMissing(html) ==
    \/ Find(html, begin_marker(SpMarker)) = -1
    \/ Find(html, end_marker(SpMarker)) = -1

\* C2: a call of update_html_file on a document in which the begin marker or
\* the end marker of the region does not occur returns False, prints the
\* warning and leaves the document as it was: no write happens (the file is
\* written once per call that returned True, and never otherwise).
C2_MissingMarkerIsNoOp ==
    (sp_ret /= "none" /\ MarkerMissing(sp_before)) =>
        /\ sp_ret = "False"
        /\ sp_html = sp_before
        /\ sp_html = sp_orig
        /\ sp_warnings >= 1
        /\ sp_writes = 0

\* The begin marker is there and the end marker is not, and the call was made.
C2_Witness ==
    /\ sp_ret = "False"
    /\ Find(sp_before, begin_marker(SpMarker)) /= -1
    /\ Find(sp_before, end_marker(SpMarker)) = -1
    /\ sp_warnings = MaxSplices

\* The text of html up to and including its begin marker.
UpToBegin(html) ==
    Take(html, Find(html, begin_marker(SpMarker)) + Len(begin_marker(SpMarker)))

\* The text of html from its end marker to the end.
FromEnd(html) == Drop(html, Find(html, end_marker(SpMarker)))

\* C4: once A and then B have been spliced into a document that contains both
\* markers, the text up to and including the begin marker and the text from
\* the end marker on are those of the original document, and between them is
\* B (with the fixed line break and indentation) and nothing of A.
C4_ResplicePreservesOutside ==
    (Len(sp_spliced) = 2 /\ ~MarkerMissing(sp_orig)) =>
        sp_html = UpToBegin(sp_orig) \o <<"\n">> \o sp_spliced[2]
                    \o <<"\n        ">> \o FromEnd(sp_orig)

\* C5: update_html_file returns True only for a document in which the begin
\* marker and the end marker each occur exactly once, the begin marker first.
C5_SuccessOnlyWhenWellFormed ==
    sp_ret = "True" =>
        /\ Count(sp_before, begin_marker(SpMarker)) = 1
        /\ Count(sp_before, end_marker(SpMarker)) = 1
        /\ Find(sp_before, begin_marker(SpMarker)) < Find(sp_before, end_marker(SpMarker))

----------------------------------------------------------------------------
(* escape_html, capitalize and the card renderers.  The fixed text of a    *)
(* template between two interpolations is one token (its indentation is    *)
(* left out); every interpolated value is a sequence of characters.        *)

\* html.escape(s, quote=True) of one character; an entity is one token.
EscapeChar(c) ==
    CASE c = "&" -> "&amp;"
      [] c = "<" -> "&lt;"
      [] c = ">" -> "&gt;"
      [] c = "\"" -> "&quot;"
      [] c = "'" -> "&#x27;"
      [] OTHER -> c

escape_html(s) == IF ~Truthy(s) THEN <<>> ELSE [i \in 1..Len(s) |-> EscapeChar(s[i])]

capitalize(s) == IF s /= <<>> THEN <<Upper(s[1])>> \o Tail(s) ELSE <<>>

S_quote == <<"q", "u", "o", "t", "e">>

S_link == <<"l", "i", "n", "k">>

S_small == <<"s", "m", "a", "l", "l">>

S_large == <<"l", "a", "r", "g", "e">>

S_medium == <<"m", "e", "d", "i", "u", "m">>

S_journal == <<"j", "o", "u", "r", "n", "a", "l">>

S_conference == <<"c", "o", "n", "f", "e", "r", "e", "n", "c", "e">>

S_thesis == <<"t", "h", "e", "s", "i", "s">>

S_preprint == <<"p", "r", "e", "p", "r", "i", "n", "t">>

S_workshop == <<"w", "o", "r", "k", "s", "h", "o", "p">>

S_active == <<"a", "c", "t", "i", "v", "e">>

S_Untitled == <<"U", "n", "t", "i", "t", "l", "e", "d">>

S_UntitledProject == S_Untitled \o <<" ", "P", "r", "o", "j", "e", "c", "t">>

S_hash == <<"#">>

CommaSpace == <<",", " ">>

get_default_publication_image(pub_type) ==
    CASE pub_type = S_conference ->
            <<"https://images.unsplash.com/photo-1517976487492-5750f3195933?w=400", "&", "q=80">>
      [] pub_type = S_thesis ->
            <<"https://images.unsplash.com/photo-1456513080510-7bf3a84b82f8?w=400", "&", "q=80">>
      [] pub_type = S_preprint ->
            <<"https://images.unsplash.com/photo-1518152006812-edab29b069ac?w=400", "&", "q=80">>
      [] pub_type = S_workshop ->
            <<"https://images.unsplash.com/photo-1635070041078-e363dbe005cb?w=400", "&", "q=80">>
      [] OTHER ->
            <<"https://images.unsplash.com/photo-1532094349884-543bc11b234d?w=400", "&", "q=80">>

\* The images random.choice picks from in get_default_project_image.
DefaultProjectImages ==
    { <<"https://images.unsplash.com/photo-1551288049-bebda4e38f71?w=800", "&", "q=80">>,
      <<"https://images.unsplash.com/photo-1677442136019-21780ecad995?w=800", "&", "q=80">>,
      <<"https://images.unsplash.com/photo-1460925895917-afdab827c52f?w=800", "&", "q=80">> }

\* The image block shared by the masonry layouts.
masonry_image_html(image, title) ==
    IF Truthy(image)
    THEN <<"\n<div class=\"masonry__image\">\n<img src=\"">> \o escape_html(image)
            \o <<"\" alt=\"">> \o title \o <<"\" loading=\"lazy\">\n</div>">>
    ELSE <<>>

generate_find_card(item, metadata) ==
    LET title == escape_html(Or(item.title, Or(metadata.title, S_Untitled)))
        description == escape_html(Or(item.notes, Or(metadata.description, <<>>)))
        image == Or(item.image, metadata.image)
        category == Get(item.category, S_link)
        size == Get(item.size, S_small)
        url == Get(item.url, S_hash)
        size_class == IF size = S_large THEN <<" masonry__item--large">>
                      ELSE IF size = S_medium THEN <<" masonry__item--medium">>
                      ELSE <<>>
        image_html == masonry_image_html(image, title)
    IN  IF category = S_quote
        THEN <<"\n<article class=\"masonry__item\" data-category=\"quote\">\n<div class=\"masonry__content\">\n<span class=\"masonry__category masonry__category--quote\">Quote</span>\n<blockquote class=\"masonry__quote\">\"">>
             \o escape_html(Get(item.quote, <<>>))
             \o <<"\"</blockquote>\n<p class=\"masonry__description\">(em dash) ">>
             \o escape_html(Get(item.author, <<>>))
             \o (IF Truthy(item.notes)
                 THEN <<". ">> \o escape_html(Get(item.notes, <<>>))
                 ELSE <<>>)
             \o <<"</p>\n</div>\n</article>">>
        ELSE <<"\n<article class=\"masonry__item">> \o size_class
             \o <<"\" data-category=\"">> \o category \o <<"\">\n">>
             \o image_html
             \o <<"\n<div class=\"masonry__content\">\n<span class=\"masonry__category masonry__category--">>
             \o category \o <<"\">">> \o capitalize(category)
             \o <<"</span>\n<h3 class=\"masonry__title\"><a href=\"">> \o escape_html(url)
             \o <<"\" target=\"_blank\" rel=\"noopener\">">> \o title
             \o <<"</a></h3>\n<p class=\"masonry__description\">">> \o description
             \o <<"</p>\n</div>\n</article>">>

\* The "View" link block of the uniform cards.
uniform_links_html(url) ==
    IF url /= S_hash
    THEN <<"\n<div class=\"uniform-card__links\">\n<a href=\"">> \o escape_html(url)
            \o <<"\" class=\"uniform-card__link\" target=\"_blank\" rel=\"noopener\">View</a>\n</div>">>
    ELSE <<>>

generate_publication_card(item, metadata) ==
    LET title == escape_html(Or(item.title, Or(metadata.title, S_Untitled)))
        authors == Join(GetList(item.authors, <<>>), CommaSpace)
        venue == escape_html(Or(item.venue, Or(metadata.site_name, <<>>)))
        year == Get(item.year, <<>>)
        pub_type == Get(item.type, S_journal)
        image == Or(item.image, Or(metadata.image, get_default_publication_image(pub_type)))
        url == Get(item.url, S_hash)
    IN  <<"\n<article class=\"uniform-card\">\n<div class=\"uniform-card__image\">\n<img src=\"">>
        \o escape_html(image) \o <<"\" alt=\"">> \o title
        \o <<"\" loading=\"lazy\">\n</div>\n<div class=\"uniform-card__content\">\n<span class=\"uniform-card__tag uniform-card__tag--publication\">">>
        \o capitalize(pub_type)
        \o <<"</span>\n<h3 class=\"uniform-card__title\">\n<a href=\"">> \o escape_html(url)
        \o <<"\" target=\"_blank\" rel=\"noopener\">">> \o title
        \o <<"</a>\n</h3>\n<p class=\"uniform-card__description\">">> \o escape_html(authors)
        \o <<"</p>\n<span class=\"uniform-card__meta\">">> \o venue
        \o (IF Truthy(year) THEN CommaSpace \o year ELSE <<>>)
        \o <<"</span>\n">> \o uniform_links_html(url)
        \o <<"\n</div>\n</article>">>

\* image is item.get('image') or get_default_project_image(): default_image
\* is the image random.choice returned.
generate_project_card(item, default_image) ==
    LET title == escape_html(Get(item.title, S_UntitledProject))
        description == escape_html(Get(item.description, <<>>))
        status == Get(item.status, S_active)
        tech == GetList(item.tech, <<>>)
        image == Or(item.image, default_image)
        url == Get(item.url, S_hash)
        status_class == IF status = S_active THEN <<"uniform-card__tag--active">>
                        ELSE <<"uniform-card__tag--completed">>
    IN  <<"\n<article class=\"uniform-card\">\n<div class=\"uniform-card__image\">\n<img src=\"">>
        \o escape_html(image) \o <<"\" alt=\"">> \o title
        \o <<"\" loading=\"lazy\">\n</div>\n<div class=\"uniform-card__content\">\n<span class=\"uniform-card__tag ">>
        \o status_class \o <<"\">">> \o capitalize(status)
        \o <<"</span>\n<h3 class=\"uniform-card__title\">\n<a href=\"">> \o escape_html(url)
        \o <<"\" target=\"_blank\" rel=\"noopener\">">> \o title
        \o <<"</a>\n</h3>\n<p class=\"uniform-card__description\">">> \o description
        \o <<"</p>\n<span class=\"uniform-card__meta\">">> \o Join(tech, CommaSpace)
        \o <<"</span>\n">> \o uniform_links_html(url)
        \o <<"\n</div>\n</article>">>

generate_writing_list_item(title, date, slug) ==
    <<"\n<li class=\"list__item\">\n<a href=\"/writing/">> \o slug
    \o <<".html\" class=\"list__link\">\n<span class=\"list__title\">">> \o escape_html(title)
    \o <<"</span>\n<span class=\"list__meta\">">> \o escape_html(date)
    \o <<"</span>\n</a>\n</li>">>

generate_writing_masonry_card(title, date, slug, excerpt) ==
    <<"\n<article class=\"masonry__item\" data-category=\"writing\">\n<div class=\"masonry__content\">\n<span class=\"masonry__category masonry__category--writing\">My Writing</span>\n<h3 class=\"masonry__title\"><a href=\"/writing/">>
    \o slug \o <<".html\">">> \o escape_html(title)
    \o <<"</a></h3>\n<p class=\"masonry__description\">">>
    \o (IF excerpt /= <<>> THEN escape_html(excerpt) ELSE escape_html(date))
    \o <<"</p>\n</div>\n</article>">>

generate_publication_masonry_card(item, metadata) ==
    LET title == escape_html(Or(item.title, Or(metadata.title, S_Untitled)))
        authors == Join(GetList(item.authors, <<>>), CommaSpace)
        venue == Or(item.venue, Or(metadata.site_name, <<>>))
        year == Get(item.year, <<>>)
        url == Get(item.url, S_hash)
        image == Or(item.image, metadata.image)
        meta_parts == (IF Truthy(venue) THEN <<escape_html(venue)>> ELSE <<>>)
                      \o (IF Truthy(year) THEN <<year>> ELSE <<>>)
        meta == Join(meta_parts, CommaSpace)
        image_html == masonry_image_html(image, title)
    IN  <<"\n<article class=\"masonry__item\" data-category=\"publication\">\n">>
        \o image_html
        \o <<"\n<div class=\"masonry__content\">\n<span class=\"masonry__category masonry__category--publication\">My Publication</span>\n<h3 class=\"masonry__title\"><a href=\"">>
        \o escape_html(url) \o <<"\" target=\"_blank\" rel=\"noopener\">">> \o title
        \o <<"</a></h3>\n<p class=\"masonry__description\">">> \o escape_html(authors)
        \o <<"</p>\n">>
        \o (IF meta /= <<>> THEN <<"<p class=\"masonry__meta\">">> \o meta \o <<"</p>">> ELSE <<>>)
        \o <<"\n</div>\n</article>">>

generate_project_masonry_card(item) ==
    LET title == escape_html(Get(item.title, S_UntitledProject))
        description == escape_html(Get(item.description, <<>>))
        tech == GetList(item.tech, <<>>)
        url == Get(item.url, S_hash)
        image == Get(item.image, <<>>)
        image_html == masonry_image_html(image, title)
    IN  <<"\n<article class=\"masonry__item masonry__item--medium\" data-category=\"project\">\n">>
        \o image_html
        \o <<"\n<div class=\"masonry__content\">\n<span class=\"masonry__category masonry__category--project\">My Project</span>\n<h3 class=\"masonry__title\"><a href=\"">>
        \o escape_html(url) \o <<"\" target=\"_blank\" rel=\"noopener\">">> \o title
        \o <<"</a></h3>\n<p class=\"masonry__description\">">> \o description
        \o <<"</p>\n">>
        \o (IF tech /= <<>>
            THEN <<"<p class=\"masonry__meta\">">> \o Join(tech, CommaSpace) \o <<"</p>">>
            ELSE <<>>)
        \o <<"\n</div>\n</article>">>

----------------------------------------------------------------------------
(* slugify *)

Digits == {"0", "1", "2", "3", "4", "5", "6", "7", "8", "9"}

Range(f) == {f[i] : i \in DOMAIN f}

\* The ASCII word characters: [a-zA-Z0-9_]
AsciiWordChars == Range(LowerLetters) \cup Range(UpperLetters) \cup Digits \cup {"_"}

\* U+03D2, GREEK UPSILON WITH HOOK SYMBOL: an upper-case letter (category
\* Lu, str.isupper() is True) that has no lower-case form, so that
\* str.lower() leaves it as it is; one of 471 such letters of Unicode.
UpsilonHook == "(U+03D2)"

\* The upper-case letters str.lower() does not change
CaselessCapitals == {UpsilonHook}

\* \w of Python's re, on the characters of the model
WordChars == AsciiWordChars \cup CaselessCapitals

\* \s of Python's re
SpaceChars == {" ", "\t", "\n", "\r"}

RECURSIVE CollapseRuns(_, _, _)
\* re.sub(r'X+', r, s) for a class X of single characters
CollapseRuns(s, X, r) ==
    IF s = <<>> THEN <<>>
    ELSE IF s[1] \in X
         THEN IF Len(s) > 1 /\ s[2] \in X
              THEN CollapseRuns(Tail(s), X, r)
              ELSE r \o CollapseRuns(Tail(s), X, r)
         ELSE <<s[1]>> \o CollapseRuns(Tail(s), X, r)

RECURSIVE LStrip(_, _)
LStrip(s, X) == IF s /= <<>> /\ s[1] \in X THEN LStrip(Tail(s), X) ELSE s

RECURSIVE RStrip(_, _)
RStrip(s, X) ==
    IF s /= <<>> /\ s[Len(s)] \in X THEN RStrip(SubSeq(s, 1, Len(s) - 1), X) ELSE s

\* str.strip(chars); str.strip() is Strip(s, SpaceChars)
Strip(s, X) == RStrip(LStrip(s, X), X)

\* slugify with strip('-') applied before the whitespace is replaced
slugify_strip_first(text) ==
    LET lowered == [i \in 1..Len(text) |-> Lower(text[i])]
        kept(c) == c \in WordChars \cup SpaceChars \cup {"-"}
        cleaned == Strip(SelectSeq(lowered, kept), {"-"})
        hyphened == CollapseRuns(cleaned, SpaceChars, <<"-">>)
    IN  CollapseRuns(hyphened, {"-"}, <<"-">>)

slugify(text) ==
    LET lowered == [i \in 1..Len(text) |-> Lower(text[i])]
        kept(c) == c \in WordChars \cup SpaceChars \cup {"-"}
        cleaned == SelectSeq(lowered, kept)
        hyphened == CollapseRuns(cleaned, SpaceChars, <<"-">>)
        collapsed == CollapseRuns(hyphened, {"-"}, <<"-">>)
    IN  Strip(collapsed, {"-"})

----------------------------------------------------------------------------
(* Specification SpecSlug: slugify applied to one title, then to its own   *)
(* result.                                                                  *)

\* The characters of the titles: a letter in both cases, an upper-case
\* letter without a lower-case form, the underscore, the hyphen, two kinds
\* of whitespace and a character slugify removes
TitleAlphabet == {"A", "a", UpsilonHook, "_", "-", " ", "\t", "!"}

InitSlug ==
    /\ sl_text \in SeqsUpTo(TitleAlphabet, MaxTitleLen)
    /\ sl_slug = <<>>
    /\ sl_again = <<>>
    /\ sl_done = FALSE
    /\ IdleSplice
    /\ IdleCards
    /\ IdleMd
    /\ IdleEx
    /\ IdleBuild

\* slug = slugify(text); again = slugify(slug)
Slugify ==
    /\ ~sl_done
    /\ \E slug \in {slugify(sl_text)} :
          /\ sl_slug' = slug
          /\ sl_again' = slugify(slug)
    /\ sl_done' = TRUE
    /\ UNCHANGED <<sl_text, spliceVars, cardVars, mdVars, exVars, buildVars>>

NextSlug == Slugify

SpecSlug == InitSlug /\ [][NextSlug]_vars

\* str.isupper() of one character
IsUpper(c) == c \in Range(UpperLetters) \cup CaselessCapitals

\* No leading or trailing hyphen, no two adjacent hyphens, no whitespace
HyphenNormal(s) ==
    /\ s /= <<>> => s[1] /= "-" /\ s[Len(s)] /= "-"
    /\ \A i \in 1..(Len(s) - 1) : ~(s[i] = "-" /\ s[i + 1] = "-")
    /\ \A i \in 1..Len(s) : s[i] \notin SpaceChars

\* C12 as stated: slugify(slugify(t)) = slugify(t), and slugify(t) has no
\* leading or trailing hyphen, no two adjacent hyphens, no whitespace and
\* no upper-case letter.
C12_SlugifyIdempotentNoUpperCase ==
    sl_done =>
        /\ sl_again = sl_slug
        /\ HyphenNormal(sl_slug)
        /\ \A i \in 1..Len(sl_slug) : ~IsUpper(sl_slug[i])

\* C12, amended: slugify(slugify(t)) = slugify(t), and slugify(t) has no
\* leading or trailing hyphen, no two adjacent hyphens, no whitespace and
\* no character that str.lower() changes: an upper-case letter is in it
\* only if it has no lower-case form.
C12_SlugifyIdempotentLowered ==
    sl_done =>
        /\ sl_again = sl_slug
        /\ HyphenNormal(sl_slug)
        /\ \A i \in 1..Len(sl_slug) : Lower(sl_slug[i]) = sl_slug[i]
        /\ \A i \in 1..Len(sl_slug) : IsUpper(sl_slug[i]) => sl_slug[i] \in CaselessCapitals

\* slugify has lowered a letter, replaced whitespace next to a hyphen and
\* stripped a leading hyphen, and applied again it returned the same slug.
C12_Witness ==
    /\ sl_done
    /\ sl_text = <<"-", "A", " ", "a">>
    /\ sl_slug = <<"a", "-", "a">>
    /\ sl_again = sl_slug

----------------------------------------------------------------------------
(* Specification SpecCards: one card renderer applied to one record.       *)

\* Text a record or a fetched page may hold: plain, and with the characters
\* HTML gives a meaning.
CardTexts == {<<"a">>, <<"<", "b", ">">>, <<"&", "\"">>}

FindItems ==
    [title : {None, <<"a">>}, notes : {None, <<"<", "b", ">">>},
     image : {None, <<"&", "\"">>}, category : {None, S_quote} \cup CardTexts,
     size : {None, S_large, S_medium, <<"<", "b", ">">>}, url : {None, <<"&", "\"">>},
     quote : {None, <<"<", "b", ">">>}, author : {None, <<"&", "\"">>}]

PublicationItems ==
    [title : {None, <<"a">>}, authors : {AbsentList, <<<<"a">>, <<"<", "b", ">">>>>},
     venue : {None, <<"<", "b", ">">>}, year : {None, <<"2", "0", "2", "4">>, <<"<", "b", ">">>},
     type : {None, S_thesis} \cup CardTexts, image : {None, <<"&", "\"">>},
     url : {None, <<"&", "\"">>}]

ProjectItems ==
    [title : {None, <<"a">>}, description : {None, <<"<", "b", ">">>},
     status : {None, S_active} \cup CardTexts,
     tech : {AbsentList, <<>>, <<<<"a">>, <<"<", "b", ">">>>>},
     image : {None, <<"&", "\"">>}, url : {None, <<"&", "\"">>}]

\* The arguments of generate_writing_masonry_card; the slug is slugify(title).
WritingArgs ==
    [title : {<<"A", " ", "<", "b", ">">>, <<"a">>}, date : {<<>>, <<"&", "\"">>},
     excerpt : {<<>>, <<"<", "b", ">">>}]

EmptyMetadata == [title |-> None, description |-> None, image |-> None, site_name |-> None]

CardMetadata ==
    {EmptyMetadata,
     [title |-> <<"<", "b", ">">>, description |-> <<"&", "\"">>,
      image |-> <<"&", "\"">>, site_name |-> <<"<", "b", ">">>]}

InitCards ==
    /\ \/ cd_renderer = "generate_find_card" /\ cd_item \in FindItems
          /\ cd_metadata \in CardMetadata
       \/ cd_renderer \in {"generate_publication_card", "generate_publication_masonry_card"}
          /\ cd_item \in PublicationItems /\ cd_metadata \in CardMetadata
       \/ cd_renderer \in {"generate_project_card", "generate_project_masonry_card"}
          /\ cd_item \in ProjectItems /\ cd_metadata = EmptyMetadata
       \/ cd_renderer = "generate_writing_masonry_card" /\ cd_item \in WritingArgs
          /\ cd_metadata = EmptyMetadata
    /\ cd_html = <<>>
    /\ cd_done = FALSE
    /\ IdleSplice
    /\ IdleMd
    /\ IdleEx
    /\ IdleSlug
    /\ IdleBuild

Returned(html) ==
    /\ ~cd_done
    /\ cd_html' = html
    /\ cd_done' = TRUE
    /\ UNCHANGED <<cd_renderer, cd_item, cd_metadata, spliceVars, mdVars, exVars, slugVars, buildVars>>

RenderFind ==
    /\ cd_renderer = "generate_find_card"
    /\ Returned(generate_find_card(cd_item, cd_metadata))

RenderPublication ==
    /\ cd_renderer = "generate_publication_card"
    /\ Returned(generate_publication_card(cd_item, cd_metadata))

RenderProject ==
    /\ cd_renderer = "generate_project_card"
    /\ \E default_image \in DefaultProjectImages :
          Returned(generate_project_card(cd_item, default_image))

RenderWritingMasonry ==
    /\ cd_renderer = "generate_writing_masonry_card"
    /\ Returned(generate_writing_masonry_card(cd_item.title, cd_item.date,
                                              slugify(cd_item.title), cd_item.excerpt))

RenderPublicationMasonry ==
    /\ cd_renderer = "generate_publication_masonry_card"
    /\ Returned(generate_publication_masonry_card(cd_item, cd_metadata))

RenderProjectMasonry ==
    /\ cd_renderer = "generate_project_masonry_card"
    /\ Returned(generate_project_masonry_card(cd_item))

NextCards ==
    \/ RenderFind
    \/ RenderPublication
    \/ RenderProject
    \/ RenderWritingMasonry
    \/ RenderPublicationMasonry
    \/ RenderProjectMasonry

SpecCards == InitCards /\ [][NextCards]_vars

\* The characters html.escape replaces: one of them as a token of a fragment
\* is a character of a value that was written unescaped (the fixed text of a
\* template is in tokens of its own).
RawSpecial == {"<", ">", "&", "\"", "'"}

\* C8: in the fragment a card renderer returns, no character of a value that
\* comes from the record or from the fetched metadata is an unescaped '<',
\* '>', '&' or '"'.
C8_ValuesAreEscaped ==
    cd_done => \A i \in 1..Len(cd_html) : cd_html[i] \notin RawSpecial

----------------------------------------------------------------------------
(* markdown_to_html.  The text is a sequence of characters; a tag that a   *)
(* pass writes ("<li>", "<em>", ...) is one token.  The passes are the     *)
(* re.sub and str.replace calls of the function, in its order.             *)

RECURSIVE ReplaceAll(_, _, _)
\* str.replace(from, to)
ReplaceAll(s, from, to) ==
    LET i == Find(s, from)
    IN  IF i = -1 THEN s
        ELSE Take(s, i) \o to \o ReplaceAll(Drop(s, i + Len(from)), from, to)

\* ^ under re.MULTILINE: position i (1-based) begins a line.
AtLineStart(s, i) == i = 1 \/ s[i - 1] = "\n"

\* $ under re.MULTILINE: position i is just past the end of a line.
AtLineEnd(s, i) == i = Len(s) + 1 \/ s[i] = "\n"

\* The first position >= i that is just past the end of a line: where (.*)
\* stops when it starts at i.
LineEnd(s, i) == CHOOSE e \in i..(Len(s) + 1) :
                    /\ AtLineEnd(s, e)
                    /\ \A k \in i..(e - 1) : s[k] /= "\n"

\* The least element of a non-empty set of positions
Min(S) == CHOOSE x \in S : \A y \in S : x <= y

\* The greatest element of a non-empty set of positions
Max(S) == CHOOSE x \in S : \A y \in S : y <= x

\* The length of the run of \s characters that starts at i, at most max of them.
WsRun(s, i, max) ==
    LET ok(n) == \A k \in i..(i + n - 1) : k <= Len(s) /\ s[k] \in SpaceChars
        lens == {n \in 0..max : n <= Len(s) - i + 1 /\ ok(n)}
    IN  Max(lens)

\* The prefixes of pre that ^P\s{min,max} matches at position i
PrefixesAt(s, i, pre, min, max) ==
    {q \in pre : AtLineStart(s, i) /\ StartsWithAt(s, i, q) /\ WsRun(s, i + Len(q), max) >= min}

RECURSIVE SubLinePrefixFrom(_, _, _, _, _, _, _)
\* re.sub(r'^P\s{min,max}(.*)$', open + r'\1' + close, s, flags=re.MULTILINE)
\* from position i on, for the prefixes P in pre: the leftmost match at or
\* after i is replaced, and the search goes on where it ended.
SubLinePrefixFrom(s, i, pre, min, max, open, close) ==
    LET starts == {p \in i..Len(s) : PrefixesAt(s, p, pre, min, max) /= {}}
    IN  IF starts = {} THEN SubSeq(s, i, Len(s))
        ELSE LET p == Min(starts)
                 q == CHOOSE x \in PrefixesAt(s, p, pre, min, max) : TRUE
                 g == p + Len(q) + WsRun(s, p + Len(q), max)
                 e == LineEnd(s, g)
             IN  SubSeq(s, i, p - 1) \o open \o SubSeq(s, g, e - 1) \o close
                   \o SubLinePrefixFrom(s, e, pre, min, max, open, close)

SubLinePrefix(s, pre, min, max, open, close) ==
    SubLinePrefixFrom(s, 1, pre, min, max, open, close)

\* The characters of a horizontal rule
RuleChars == {"*", "-", "_"}

\* ^(\*{3,}|-{3,}|_{3,})$ matches at position i
RuleAt(s, i) ==
    /\ AtLineStart(s, i)
    /\ s[i] \in RuleChars
    /\ LineEnd(s, i) - i >= 3
    /\ \A k \in i..(LineEnd(s, i) - 1) : s[k] = s[i]

RECURSIVE SubRule(_, _)
\* re.sub(r'^(\*{3,}|-{3,}|_{3,})$', '<hr>', s, flags=re.MULTILINE) from i on
SubRule(s, i) ==
    LET starts == {p \in i..Len(s) : RuleAt(s, p)}
    IN  IF starts = {} THEN SubSeq(s, i, Len(s))
        ELSE LET p == Min(starts)
             IN  SubSeq(s, i, p - 1) \o <<"<hr>">> \o SubRule(s, LineEnd(s, p))

\* Where the group of D(X+?)D or D([^x]+)D ends when D is at i: the least
\* j past one character of the group with D at j and no character of excl
\* between; 0 when there is none.
DelimEnd(s, i, d, excl) ==
    LET ends == {j \in (i + Len(d) + 1)..Len(s) :
                    /\ StartsWithAt(s, j, d)
                    /\ \A k \in (i + Len(d))..(j - 1) : s[k] \notin excl}
    IN  IF StartsWithAt(s, i, d) /\ ends /= {}
        THEN Min(ends)
        ELSE 0

RECURSIVE SubDelimFrom(_, _, _, _, _, _)
SubDelimFrom(s, i, d, excl, open, close) ==
    LET starts == {p \in i..Len(s) : DelimEnd(s, p, d, excl) /= 0}
    IN  IF starts = {} THEN SubSeq(s, i, Len(s))
        ELSE LET p == Min(starts)
                 j == DelimEnd(s, p, d, excl)
             IN  SubSeq(s, i, p - 1) \o open \o SubSeq(s, p + Len(d), j - 1) \o close
                   \o SubDelimFrom(s, j + Len(d), d, excl, open, close)

\* re.sub(r'D(.+?)D', open + r'\1' + close, s) with excl = {"\n"}, and the
\* inline code pass, D the backquote, with excl = {Backtick}
SubDelim(s, d, excl, open, close) == SubDelimFrom(s, 1, d, excl, open, close)

\* The position of the "]" that ends [^\]]+ when "[" is at i; 0 when
\* \[([^\]]+)\] does not match at i.
LinkTextEnd(s, i) ==
    LET closes == {j \in (i + 1)..Len(s) : s[j] = "]"}
    IN  IF s[i] = "[" /\ closes /= {} /\ Min(closes) >= i + 2 THEN Min(closes) ELSE 0

\* The position of the ")" that ends the link when "[" is at i; 0 when the
\* regex does not match at i.
LinkEnd(s, i) ==
    LET rb == LinkTextEnd(s, i)
        closes == {k \in (rb + 2)..Len(s) : s[k] = ")"}
    IN  IF rb /= 0 /\ rb + 1 <= Len(s) /\ s[rb + 1] = "(" /\ closes /= {}
           /\ Min(closes) >= rb + 3
        THEN Min(closes)
        ELSE 0

RECURSIVE SubLinks(_, _)
\* re.sub(r'\[([^\]]+)\]\(([^)]+)\)', r'<a href="\2">\1</a>', s) from i on
SubLinks(s, i) ==
    LET starts == {p \in i..Len(s) : LinkEnd(s, p) /= 0}
    IN  IF starts = {} THEN SubSeq(s, i, Len(s))
        ELSE LET p == Min(starts)
                 rb == LinkTextEnd(s, p)
                 rp == LinkEnd(s, p)
             IN  SubSeq(s, i, p - 1) \o <<"<a href=\"">> \o SubSeq(s, rb + 2, rp - 1)
                   \o <<"\">">> \o SubSeq(s, p + 1, rb - 1) \o <<"</a>">>
                   \o SubLinks(s, rp + 1)

\* Where one <li>.*</li>\n? ends (the position just past it) when it starts
\* at i; 0 when it does not match there.
LiEnd(s, i) ==
    LET closes == {p \in (i + 1)..Len(s) :
                      /\ s[p] = "</li>"
                      /\ \A k \in (i + 1)..(p - 1) : s[k] /= "\n"}
    IN  IF i <= Len(s) /\ s[i] = "<li>" /\ closes /= {}
        THEN LET p == Max(closes)
             IN  IF p + 1 <= Len(s) /\ s[p + 1] = "\n" THEN p + 2 ELSE p + 1
        ELSE 0

RECURSIVE LiRunEnd(_, _)
\* Where (<li>.*</li>\n?)+ ends when it starts at i; 0 when it does not match.
LiRunEnd(s, i) ==
    LET e == LiEnd(s, i)
    IN  IF e = 0 THEN 0
        ELSE IF LiRunEnd(s, e) /= 0 THEN LiRunEnd(s, e) ELSE e

RECURSIVE WrapLists(_, _)
\* re.sub(r'(<li>.*</li>\n?)+', wrap_lists, s) from i on
WrapLists(s, i) ==
    LET starts == {p \in i..Len(s) : LiRunEnd(s, p) /= 0}
    IN  IF starts = {} THEN SubSeq(s, i, Len(s))
        ELSE LET p == Min(starts)
                 e == LiRunEnd(s, p)
             IN  SubSeq(s, i, p - 1) \o <<"<ul>", "\n">> \o SubSeq(s, p, e - 1)
                   \o <<"</ul>", "\n">> \o WrapLists(s, e)

RECURSIVE Split(_, _)
\* str.split(sep)
Split(s, sep) ==
    LET i == Find(s, sep)
    IN  IF i = -1 THEN <<s>>
        ELSE <<Take(s, i)>> \o Split(Drop(s, i + Len(sep)), sep)

\* The tags re.match(r'^<(h[1-6]|ul|ol|li|blockquote|pre|hr|div|p)', block)
\* finds at the start of a block, among the tags the passes write.
BlockTags ==
    {"<h1>", "<h2>", "<h3>", "<h4>", "<h5>", "<h6>", "<ul>", "<li>", "<blockquote>", "<hr>"}

RECURSIVE Paragraphs(_)
\* The loop over blocks: the list result.
Paragraphs(blocks) ==
    IF blocks = <<>> THEN <<>>
    ELSE LET block == Strip(blocks[1], SpaceChars)
         IN  (IF block = <<>> THEN <<>>
              ELSE IF block[1] \in BlockTags THEN <<block>>
              ELSE <<(<<"<p>">> \o ReplaceAll(block, <<"\n">>, <<"<br>">>) \o <<"</p>">>)>>)
             \o Paragraphs(Tail(blocks))

\* The backquote character (a string of the module cannot hold it).
Backtick == "(backquote)"

Emphasis(s, d, open, close) == SubDelim(s, d, {"\n"}, open, close)

Header(s, n) ==
    SubLinePrefix(s, {[i \in 1..n |-> "#"]}, 1, Len(s),
                  <<"<h" \o ToString(n) \o ">">>, <<"</h" \o ToString(n) \o ">">>)

\* re.sub(r'^[\*\-]\s+(.*)$', r'<li>\1</li>', text, flags=re.MULTILINE)
list_items(t) == SubLinePrefix(t, {<<"*">>, <<"-">>}, 1, Len(t), <<"<li>">>, <<"</li>">>)

markdown_to_html(markdown) ==
    LET t01 == ReplaceAll(markdown, <<"\r", "\n">>, <<"\n">>)
        t02 == ReplaceAll(t01, <<"&">>, <<"&", "a", "m", "p", ";">>)
        t03 == ReplaceAll(t02, <<"<">>, <<"&", "l", "t", ";">>)
        t04 == ReplaceAll(t03, <<">">>, <<"&", "g", "t", ";">>)
        t05 == SubLinePrefix(t04, {<<"&", "g", "t", ";">>}, 0, 1,
                             <<"<blockquote>">>, <<"</blockquote>">>)
        t06 == ReplaceAll(t05, <<"</blockquote>", "\n", "<blockquote>">>, <<"\n">>)
        t07 == Header(t06, 6)
        t08 == Header(t07, 5)
        t09 == Header(t08, 4)
        t10 == Header(t09, 3)
        t11 == Header(t10, 2)
        t12 == Header(t11, 1)
        t13 == SubRule(t12, 1)
        t14 == Emphasis(t13, <<"*", "*", "*">>, <<"<strong>", "<em>">>, <<"</em>", "</strong>">>)
        t15 == Emphasis(t14, <<"_", "_", "_">>, <<"<strong>", "<em>">>, <<"</em>", "</strong>">>)
        t16 == Emphasis(t15, <<"*", "*">>, <<"<strong>">>, <<"</strong>">>)
        t17 == Emphasis(t16, <<"_", "_">>, <<"<strong>">>, <<"</strong>">>)
        t18 == Emphasis(t17, <<"*">>, <<"<em>">>, <<"</em>">>)
        t19 == Emphasis(t18, <<"_">>, <<"<em>">>, <<"</em>">>)
        t20 == SubDelim(t19, <<Backtick>>, {Backtick}, <<"<code>">>, <<"</code>">>)
        t21 == SubLinks(t20, 1)
        t22 == list_items(t21)
        t23 == WrapLists(t22, 1)
        blocks == Split(t23, <<"\n", "\n">>)
    IN  Join(Paragraphs(blocks), <<"\n", "\n">>)

----------------------------------------------------------------------------
(* Specification SpecMd: markdown_to_html applied to a text of a few lines *)

\* The lines a text is made of: list items with "-" and with "*", plain and
\* with inline markup, prose, a blank line and a rule.
MdLines ==
    { <<"-", " ", "a">>, <<"*", " ", "a">>,
      <<"-", " ", "*", "a", "*">>, <<"*", " ", "*", "a", "*">>,
      <<"a">>, <<>>, <<"-", "-", "-">> }

InitMd ==
    /\ md_lines \in SeqsUpTo(MdLines, MaxMdLines)
    /\ md_lines /= <<>>
    /\ md_html = <<>>
    /\ md_done = FALSE
    /\ IdleSplice
    /\ IdleCards
    /\ IdleEx
    /\ IdleSlug
    /\ IdleBuild

RenderMd ==
    /\ ~md_done
    /\ md_html' = markdown_to_html(Join(md_lines, <<"\n">>))
    /\ md_done' = TRUE
    /\ UNCHANGED <<md_lines, spliceVars, cardVars, exVars, slugVars, buildVars>>

NextMd == RenderMd

SpecMd == InitMd /\ [][NextMd]_vars

\* A line that starts with '*' or '-' followed by whitespace
IsItemLine(line) == Len(line) >= 2 /\ line[1] \in {"*", "-"} /\ line[2] \in SpaceChars

\* The maximal runs of consecutive item lines: the lines that begin one.
RunStarts(lines) ==
    {i \in 1..Len(lines) : IsItemLine(lines[i]) /\ (i = 1 \/ ~IsItemLine(lines[i - 1]))}

\* C9: every line that starts with '*' or '-' followed by whitespace is
\* rendered as one <li> element, and every maximal run of such lines is
\* wrapped in exactly one <ul>, whatever inline markup the items hold.
C9_ItemLinesBecomeOneList ==
    md_done =>
        /\ Count(md_html, <<"<li>">>)
             = Cardinality({i \in 1..Len(md_lines) : IsItemLine(md_lines[i])})
        /\ Count(md_html, <<"<ul>">>) = Cardinality(RunStarts(md_lines))

----------------------------------------------------------------------------
(* The excerpt of a Writing (build) *)

\* The characters of the tags the Markdown passes write
TagChars ==
    "<p>" :> <<"<", "p", ">">> @@
    "</p>" :> <<"<", "/", "p", ">">> @@
    "<br>" :> <<"<", "b", "r", ">">> @@
    "<em>" :> <<"<", "e", "m", ">">> @@
    "</em>" :> <<"<", "/", "e", "m", ">">> @@
    "<strong>" :> <<"<", "s", "t", "r", "o", "n", "g", ">">> @@
    "</strong>" :> <<"<", "/", "s", "t", "r", "o", "n", "g", ">">> @@
    "<code>" :> <<"<", "c", "o", "d", "e", ">">> @@
    "</code>" :> <<"<", "/", "c", "o", "d", "e", ">">> @@
    "<a href=\"" :> <<"<", "a", " ", "h", "r", "e", "f", "=", "\"">> @@
    "\">" :> <<"\"", ">">> @@
    "</a>" :> <<"<", "/", "a", ">">> @@
    "<ul>" :> <<"<", "u", "l", ">">> @@
    "</ul>" :> <<"<", "/", "u", "l", ">">> @@
    "<li>" :> <<"<", "l", "i", ">">> @@
    "</li>" :> <<"<", "/", "l", "i", ">">> @@
    "<hr>" :> <<"<", "h", "r", ">">> @@
    "<blockquote>" :> <<"<", "b", "l", "o", "c", "k", "q", "u", "o", "t", "e", ">">> @@
    "</blockquote>" :> <<"<", "/", "b", "l", "o", "c", "k", "q", "u", "o", "t", "e", ">">> @@
    "<h1>" :> <<"<", "h", "1", ">">> @@
    "<h2>" :> <<"<", "h", "2", ">">> @@
    "<h3>" :> <<"<", "h", "3", ">">> @@
    "<h4>" :> <<"<", "h", "4", ">">> @@
    "<h5>" :> <<"<", "h", "5", ">">> @@
    "<h6>" :> <<"<", "h", "6", ">">> @@
    "</h1>" :> <<"<", "/", "h", "1", ">">> @@
    "</h2>" :> <<"<", "/", "h", "2", ">">> @@
    "</h3>" :> <<"<", "/", "h", "3", ">">> @@
    "</h4>" :> <<"<", "/", "h", "4", ">">> @@
    "</h5>" :> <<"<", "/", "h", "5", ">">> @@
    "</h6>" :> <<"<", "/", "h", "6", ">">>

RECURSIVE Flatten(_)
\* The characters of a text: every tag token spelled out.
Flatten(s) ==
    LET tags == {p \in 1..Len(s) : s[p] \in DOMAIN TagChars}
    IN  IF tags = {} THEN s
        ELSE Take(s, Min(tags) - 1) \o TagChars[s[Min(tags)]] \o Flatten(Drop(s, Min(tags)))

\* The position of the ">" that ends <[^>]+> when "<" is at i; 0 when the
\* regex does not match at i.
TagEnd(s, i) ==
    LET closes == {j \in (i + 1)..Len(s) : s[j] = ">"}
    IN  IF s[i] = "<" /\ closes /= {} /\ Min(closes) >= i + 2 THEN Min(closes) ELSE 0

RECURSIVE StripTagsFrom(_, _)
\* re.sub(r'<[^>]+>', '', s) on characters, from position i on
StripTagsFrom(s, i) ==
    LET starts == {p \in i..Len(s) : TagEnd(s, p) /= 0}
    IN  IF starts = {} THEN SubSeq(s, i, Len(s))
        ELSE SubSeq(s, i, Min(starts) - 1) \o StripTagsFrom(s, TagEnd(s, Min(starts)) + 1)

StripTags(s) == StripTagsFrom(s, 1)

\* Where the group of <p>(.+?)</p> ends (the position of "</p>") when "<p>"
\* is at i; 0 when there is no match at i.
DelimEndP(content, i) ==
    LET ends == {j \in (i + 2)..Len(content) : content[j] = "</p>"}
    IN  IF content[i] = "<p>" /\ ends /= {}
        THEN Min(ends)
        ELSE 0

\* re.search(r'<p>(.+?)</p>', content, re.DOTALL): the positions i of "<p>"
\* that start a match.
ParagraphStarts(content) ==
    {i \in 1..Len(content) : DelimEndP(content, i) /= 0}

Ellipsis == <<".", ".", ".">>

\* excerpt, from parsed['content']
excerpt(content) ==
    IF ParagraphStarts(content) = {} THEN <<>>
    ELSE LET i == Min(ParagraphStarts(content))
             group == Flatten(SubSeq(content, i + 1, DelimEndP(content, i) - 1))
         IN  Take(StripTags(group), ExcerptLimit)
               \o (IF Len(group) > ExcerptLimit THEN Ellipsis ELSE <<>>)

----------------------------------------------------------------------------
(* Specification SpecExcerpt: the excerpt of a Writing whose body is one   *)
(* paragraph of plain characters followed by emphasised words.             *)

\* n plain characters, then k times a space and an emphasised character
BodyOf(n, k) == [i \in 1..n |-> "a"] \o Concat([j \in 1..k |-> <<" ", "*", "b", "*">>])

\* The text of that paragraph without its tags
TextOf(n, k) == [i \in 1..n |-> "a"] \o Concat([j \in 1..k |-> <<" ", "b">>])

InitExcerpt ==
    /\ \E n \in 1..MaxPlain, k \in 0..MaxEmph : ex_markdown = BodyOf(n, k)
    /\ ex_content = <<>>
    /\ ex_excerpt = <<>>
    /\ ex_done = FALSE
    /\ IdleSplice
    /\ IdleCards
    /\ IdleMd
    /\ IdleSlug
    /\ IdleBuild

MakeExcerpt ==
    /\ ~ex_done
    /\ ex_content' = markdown_to_html(ex_markdown)
    /\ ex_excerpt' = excerpt(ex_content')
    /\ ex_done' = TRUE
    /\ UNCHANGED <<ex_markdown, spliceVars, cardVars, mdVars, slugVars, buildVars>>

NextExcerpt == MakeExcerpt

SpecExcerpt == InitExcerpt /\ [][NextExcerpt]_vars

\* The tag-stripped text of the first rendered paragraph of the body
ExText == StripTags(Flatten(ex_content))

\* C10: the excerpt is the tag-stripped text of the first rendered paragraph
\* cut to 150 characters, followed by '...' exactly when that text is longer
\* than 150 characters.
C10_EllipsisIffTruncated ==
    ex_done =>
        /\ \E n \in 1..MaxPlain, k \in 0..MaxEmph :
              ex_markdown = BodyOf(n, k) /\ ExText = TextOf(n, k)
        /\ ex_excerpt = IF Len(ExText) > ExcerptLimit
                        THEN Take(ExText, ExcerptLimit) \o Ellipsis
                        ELSE ExText

----------------------------------------------------------------------------
(* fetch_metadata.  A URL is a sequence of tokens: the scheme, "://", the  *)
(* host, then the characters of the path.  The answer of the network to    *)
(* one request is an input: an error, or a page.  A page is given by what  *)
(* the searches of fetch_metadata find in it: for each search the text of  *)
(* group(1), or None where the search finds nothing.                       *)

\* html.unescape of one token
UnescapeChar(c) ==
    CASE c = "&amp;" -> "&"
      [] c = "&lt;" -> "<"
      [] c = "&gt;" -> ">"
      [] c = "&quot;" -> "\""
      [] c = "&#x27;" -> "'"
      [] OTHER -> c

unescape(s) == [i \in 1..Len(s) |-> UnescapeChar(s[i])]

NoPage ==
    [og_title |-> None, title_tag |-> None, og_description |-> None,
     meta_description |-> None, og_image |-> None, og_site_name |-> None]

\* urllib.request.Request(url) raises ValueError("unknown url type") for a
\* URL without a scheme, before anything is sent.
HasScheme(url) == Len(url) >= 3 /\ url[2] = "://"

\* The errors urlopen and response.read raise
NetworkErrors == {"URLError", "timeout", "IncompleteRead"}

\* What can happen to the request fetch_metadata makes for url
Responses(url, Pages) ==
    IF ~Truthy(url) THEN {[error |-> "none", sent |-> FALSE, page |-> NoPage]}
    ELSE IF ~HasScheme(url) THEN {[error |-> "ValueError", sent |-> FALSE, page |-> NoPage]}
    ELSE {[error |-> e, sent |-> TRUE, page |-> NoPage] : e \in NetworkErrors}
           \cup {[error |-> "none", sent |-> TRUE, page |-> p] : p \in Pages}

\* The characters of a YouTube video id: [a-zA-Z0-9_-]
IdChars == AsciiWordChars \cup {"-"}

\* 'youtube.com/watch' in url or 'youtu.be' in url
IsYouTube(url) ==
    \/ Find(url, <<"youtube.com", "/", "w", "a", "t", "c", "h">>) /= -1
    \/ Find(url, <<"youtu.be">>) /= -1

RECURSIVE IdRun(_, _)
\* The characters of the id that starts at position i of url
IdRun(url, i) ==
    IF i <= Len(url) /\ url[i] \in IdChars THEN <<url[i]>> \o IdRun(url, i + 1) ELSE <<>>

\* re.search(r'(?:v=|youtu\.be/)([a-zA-Z0-9_-]+)', url): group(1), or None
video_id(url) ==
    LET after(i) == IF StartsWithAt(url, i, <<"v", "=">>) THEN i + 2
                    ELSE IF StartsWithAt(url, i, <<"youtu.be", "/">>) THEN i + 2
                    ELSE 0
        hits == {i \in 1..Len(url) : after(i) /= 0 /\ IdRun(url, after(i)) /= <<>>}
    IN  IF hits = {} THEN None ELSE IdRun(url, after(Min(hits)))

\* The body of the try block after the page has been read
extract_metadata(url, page) ==
    LET title == IF page.og_title /= None THEN unescape(page.og_title)
                 ELSE IF page.title_tag /= None
                      THEN unescape(Strip(page.title_tag, SpaceChars))
                      ELSE None
        description == IF page.og_description /= None THEN unescape(page.og_description)
                       ELSE IF page.meta_description /= None
                            THEN unescape(page.meta_description)
                            ELSE None
        og_image == IF page.og_image = None THEN None
                    ELSE IF page.og_image[1] = "/"
                         THEN <<url[1], "://", url[3]>> \o page.og_image
                         ELSE page.og_image
        site_name == IF page.og_site_name /= None THEN unescape(page.og_site_name) ELSE None
        image == IF IsYouTube(url) /\ video_id(url) /= None
                 THEN <<"https://img.youtube.com/vi/">> \o video_id(url)
                        \o <<"/maxresdefault.jpg">>
                 ELSE og_image
    IN  [title |-> title, description |-> description, image |-> image,
         site_name |-> site_name]

\* Variant: the except clause catches urllib.error.URLError only.
fetch_metadata_urlerror_only(url, response) ==
    IF ~Truthy(url)
    THEN [raised |-> "none", metadata |-> EmptyMetadata, sent |-> FALSE, failed |-> FALSE]
    ELSE IF response.error = "URLError"
    THEN [raised |-> "none", metadata |-> EmptyMetadata, sent |-> response.sent,
          failed |-> TRUE]
    ELSE IF response.error /= "none"
    THEN [raised |-> response.error, metadata |-> EmptyMetadata, sent |-> response.sent,
          failed |-> TRUE]
    ELSE [raised |-> "none", metadata |-> extract_metadata(url, response.page),
          sent |-> TRUE, failed |-> FALSE]

\* fetch_metadata(url) when the network answers with response: the exception
\* that leaves the call ("none": the call returns), the mapping returned,
\* whether a GET was sent and whether the except clause ran.
fetch_metadata(url, response) ==
    IF ~Truthy(url)
    THEN [raised |-> "none", metadata |-> EmptyMetadata, sent |-> FALSE, failed |-> FALSE]
    ELSE IF response.error /= "none"
    THEN [raised |-> "none", metadata |-> EmptyMetadata, sent |-> response.sent,
          failed |-> TRUE]
    ELSE [raised |-> "none", metadata |-> extract_metadata(url, response.page),
          sent |-> TRUE, failed |-> FALSE]

----------------------------------------------------------------------------
(* parse_writing_markdown *)

\* re.match(r'^#\s+(.+)$', stripped) for stripped = line.strip(): group(1),
\* or None when there is no match.  stripped ends with a character that is
\* not whitespace, so once '#' and whitespace are found (.+) has text to
\* take: all that follows the whitespace.
HeaderText(line) ==
    LET stripped == Strip(line, SpaceChars)
    IN  IF Len(stripped) >= 2 /\ stripped[1] = "#" /\ stripped[2] \in SpaceChars
        THEN LStrip(Tail(stripped), SpaceChars)
        ELSE None

parse_writing_markdown(content) ==
    LET lines == Split(content, <<"\n">>)
        headers == {i \in 1..Len(lines) : HeaderText(lines[i]) /= None}
        first == Min(headers)
        second == Min(headers \ {first})
        title == IF headers = {} THEN <<>> ELSE HeaderText(lines[first])
        date == IF Cardinality(headers) < 2 THEN <<>> ELSE HeaderText(lines[second])
        content_start_index == IF Cardinality(headers) < 2 THEN 0 ELSE second
        content_lines == Drop(lines, content_start_index)
        content_markdown == Strip(Join(content_lines, <<"\n">>), SpaceChars)
    IN  [title |-> title, date |-> date, content |-> markdown_to_html(content_markdown)]

----------------------------------------------------------------------------
(* parse_date_for_sort.  A datetime is <<year, month, day>>.               *)

months ==
    <<<<"j", "a", "n", "u", "a", "r", "y">>,
      <<"f", "e", "b", "r", "u", "a", "r", "y">>,
      <<"m", "a", "r", "c", "h">>,
      <<"a", "p", "r", "i", "l">>,
      <<"m", "a", "y">>,
      <<"j", "u", "n", "e">>,
      <<"j", "u", "l", "y">>,
      <<"a", "u", "g", "u", "s", "t">>,
      <<"s", "e", "p", "t", "e", "m", "b", "e", "r">>,
      <<"o", "c", "t", "o", "b", "e", "r">>,
      <<"n", "o", "v", "e", "m", "b", "e", "r">>,
      <<"d", "e", "c", "e", "m", "b", "e", "r">>>>

\* months.get(name, 1)
months_get(name) ==
    IF \E m \in 1..12 : months[m] = name THEN CHOOSE m \in 1..12 : months[m] = name ELSE 1

DigitSeq == <<"0", "1", "2", "3", "4", "5", "6", "7", "8", "9">>

RECURSIVE int(_)
\* int(s) for a string of digits
int(s) ==
    IF s = <<>> THEN 0
    ELSE int(SubSeq(s, 1, Len(s) - 1)) * 10
           + (CHOOSE d \in 0..9 : DigitSeq[d + 1] = s[Len(s)])

RECURSIVE RunLen(_, _, _)
\* The length of the longest run of characters of X that starts at s[i]
RunLen(s, i, X) == IF i <= Len(s) /\ s[i] \in X THEN 1 + RunLen(s, i + 1, X) ELSE 0

\* The matches of (\w+)\s*(\d+)?,?\s*(\d{4}) that start at s[i]: the lengths
\* <<w, a, d, c, b>> its five repetitions take (d = 0: group 2 took no part).
DateMatchesAt(s, i) ==
    UNION { UNION { UNION { UNION {
        { <<w, a, d, c, b>> : b \in { b \in 0..RunLen(s, i + w + a + d + c, SpaceChars) :
                                       RunLen(s, i + w + a + d + c + b, Digits) >= 4 } }
        : c \in { c \in 0..1 : c = 1 => StartsWithAt(s, i + w + a + d, <<",">>) } }
        : d \in 0..RunLen(s, i + w + a, Digits) }
        : a \in 0..RunLen(s, i + w, SpaceChars) }
        : w \in 1..RunLen(s, i, WordChars) }

\* t is tried before u: every repetition is greedy, the earlier one first.
TriedBefore(t, u) ==
    \E k \in 1..5 : t[k] > u[k] /\ \A j \in 1..(k - 1) : t[j] = u[j]

\* re.search(r'(\w+)\s*(\d+)?,?\s*(\d{4})', s): the three groups of the
\* match (group 2 is None when it took no part), or None.
DateSearch(s) ==
    LET starts == {i \in 1..Len(s) : DateMatchesAt(s, i) /= {}}
    IN  IF starts = {} THEN None
        ELSE LET i == Min(starts)
                 M == DateMatchesAt(s, i)
                 t == CHOOSE t \in M : \A u \in M \ {t} : TriedBefore(t, u)
                 y == i + t[1] + t[2] + t[3] + t[4] + t[5]
             IN  <<SubSeq(s, i, i + t[1] - 1),
                   IF t[3] = 0 THEN None
                   ELSE SubSeq(s, i + t[1] + t[2], i + t[1] + t[2] + t[3] - 1),
                   SubSeq(s, y, y + 3)>>

IsLeap(year) == year % 4 = 0 /\ (year % 100 /= 0 \/ year % 400 = 0)

DaysInMonth(year, month) ==
    IF month = 2 THEN (IF IsLeap(year) THEN 29 ELSE 28)
    ELSE IF month \in {4, 6, 9, 11} THEN 30
    ELSE 31

\* datetime(year, month, day) raises ValueError outside these ranges
ValidDate(year, month, day) ==
    /\ year \in 1..9999
    /\ month \in 1..12
    /\ day \in 1..DaysInMonth(year, month)

Epoch == <<1970, 1, 1>>

\* parse_date_for_sort(date_str): the exception that leaves the call
\* ("none": the call returns) and the datetime returned.
parse_date_for_sort(date_str) ==
    LET match == DateSearch([i \in 1..Len(date_str) |-> Lower(date_str[i])])
    IN  IF match /= None
        THEN LET month == months_get(match[1])
                 day == IF match[2] /= None THEN int(match[2]) ELSE 1
                 year == int(match[3])
             IN  IF ValidDate(year, month, day)
                 THEN [raised |-> "none", value |-> <<year, month, day>>]
                 ELSE [raised |-> "ValueError", value |-> Epoch]
        ELSE [raised |-> "none", value |-> Epoch]

\* a > b for two datetimes
Later(a, b) ==
    \/ a[1] > b[1]
    \/ a[1] = b[1] /\ a[2] > b[2]
    \/ a[1] = b[1] /\ a[2] = b[2] /\ a[3] > b[3]

RECURSIVE sort_newest_first(_)
\* writings.sort(key=lambda w: w['sort_date'], reverse=True): the sort is
\* stable, so a Writing stays behind the earlier ones of the same date.
sort_newest_first(ws) ==
    IF ws = <<>> THEN <<>>
    ELSE LET rest == sort_newest_first(SubSeq(ws, 1, Len(ws) - 1))
             w == ws[Len(ws)]
             ahead == {k \in 0..Len(rest) :
                         \A j \in 1..k : ~Later(w.sort_date, rest[j].sort_date)}
             k == Max(ahead)
         IN  SubSeq(rest, 1, k) \o <<w>> \o SubSeq(rest, k + 1, Len(rest))

----------------------------------------------------------------------------
(* The page of a Writing *)

POST_TITLE == <<"P", "O", "S", "T", "_", "T", "I", "T", "L", "E">>

POST_DATE == <<"P", "O", "S", "T", "_", "D", "A", "T", "E">>

POST_DESCRIPTION ==
    <<"P", "O", "S", "T", "_", "D", "E", "S", "C", "R", "I", "P", "T", "I", "O", "N">>

StartWriting ==
    <<"S", "t", "a", "r", "t", " ", "w", "r", "i", "t", "i", "n", "g", ".", ".", ".">>

\* The text of writing/_template.html: each placeholder once, then the
\* block the content replaces.
Template ==
    <<"<title>">> \o POST_TITLE \o <<"</title>\n<meta name=\"description\" content=\"">>
    \o POST_DESCRIPTION \o <<"\">\n<time>">> \o POST_DATE
    \o <<"</time>\n", "<!-- Your content here -->", "\n", " ", "<p>">> \o StartWriting
    \o <<"</p>">>

\* A match of r'<!-- Your content here -->\s*<p>\s*Start writing\.\.\.\s*</p>'
\* that starts at s[i]: the position after it, or 0.
PlaceholderEnd(s, i) ==
    LET p == i + 1 + RunLen(s, i + 1, SpaceChars)
        t == p + 1 + RunLen(s, p + 1, SpaceChars)
        e == t + Len(StartWriting) + RunLen(s, t + Len(StartWriting), SpaceChars)
    IN  IF /\ StartsWithAt(s, i, <<"<!-- Your content here -->">>)
           /\ StartsWithAt(s, p, <<"<p>">>)
           /\ StartsWithAt(s, t, StartWriting)
           /\ StartsWithAt(s, e, <<"</p>">>)
        THEN e + 1
        ELSE 0

RECURSIVE SubPlaceholder(_, _, _)
\* re.sub of that pattern by content, from position i on.  (A backslash in
\* content would be read as an escape; the texts of the model have none.)
SubPlaceholder(s, content, i) ==
    LET starts == {j \in i..Len(s) : PlaceholderEnd(s, j) /= 0}
    IN  IF starts = {} THEN SubSeq(s, i, Len(s))
        ELSE LET j == Min(starts)
             IN  SubSeq(s, i, j - 1) \o content \o SubPlaceholder(s, content, PlaceholderEnd(s, j))

\* page_html
page_html(template, parsed) ==
    LET t1 == ReplaceAll(template, POST_TITLE, escape_html(parsed.title))
        t2 == ReplaceAll(t1, POST_DATE, escape_html(parsed.date))
        t3 == ReplaceAll(t2, POST_DESCRIPTION, escape_html(parsed.title))
    IN  SubPlaceholder(t3, parsed.content, 1)

----------------------------------------------------------------------------
(* Specification Spec: one run of build().  What the run reads (the JSON   *)
(* lists, the Markdown files, whether an input exists, the answer to each  *)
(* request) is chosen when the run reads it.                               *)

Inputs == {"finds.json", "publications.json", "projects.json", "writings"}

Targets == {"publications.html", "projects.html", "writing.html", "index.html"}

\* The region build() splices in each target document
MarkerOf(f) ==
    CASE f = "publications.html" -> "publications"
      [] f = "projects.html" -> "projects"
      [] f = "writing.html" -> "writing"
      [] f = "index.html" -> "finds"

\* A target document before the run: with both markers of its region, or
\* with the end marker lost.
Document(marker, intact) ==
    <<"<main>", "\n">> \o begin_marker(marker) \o <<"\n", "o", "l", "d", "\n">>
    \o (IF intact THEN end_marker(marker) ELSE <<>>) \o <<"\n", "</main>">>

PlainUrl == <<"https", "://", "h.example", "/", "p">>

YouTubeUrl == <<"https", "://", "youtu.be", "/", "i", "d">>

NoSchemeUrl == <<"h.example", "/", "p">>

FindRecords ==
    { [title |-> <<"a">>, notes |-> None, image |-> None, category |-> None,
       size |-> None, url |-> None, quote |-> None, author |-> None],
      [title |-> None, notes |-> None, image |-> None, category |-> None,
       size |-> None, url |-> PlainUrl, quote |-> None, author |-> None] }

PublicationRecords ==
    { [title |-> None, authors |-> AbsentList, venue |-> None, year |-> None,
       type |-> None, image |-> None, url |-> YouTubeUrl],
      [title |-> <<"b">>, authors |-> <<<<"c">>>>, venue |-> None, year |-> None,
       type |-> S_thesis, image |-> None, url |-> NoSchemeUrl] }

ProjectRecords ==
    { [title |-> <<"p">>, description |-> None, status |-> None, tech |-> AbsentList,
       image |-> <<"/", "i">>, url |-> None] }

\* The pages the network serves
Pages ==
    { [og_title |-> <<"m", "&amp;">>, title_tag |-> <<" ", "t", " ">>,
       og_description |-> None, meta_description |-> <<"d">>,
       og_image |-> <<"/", "i">>, og_site_name |-> None] }

\* The Markdown files: with title and date, without a title, with a day the
\* month does not have, with a month that is not one, and with a title that
\* gives the slug of the first.
MdFiles ==
    { <<"#", " ", "A", " ", "b", "\n", "#", " ", "M", "a", "r", "c", "h", " ", "2", "0", "2", "4", "\n", "\n", "x">>,
      <<"x", "\n", "\n", "y">>,
      <<"#", " ", "T", "\n", "#", " ", "F", "e", "b", "r", "u", "a", "r", "y", " ", "3", "0", ",", " ", "2", "0", "2", "4", "\n", "x">>,
      <<"#", " ", "U", "\n", "#", " ", "F", "o", "o", " ", "2", "0", "2", "4">>,
      <<"#", " ", "a", "-", "b", "\n", "#", " ", "J", "a", "n", "u", "a", "r", "y", " ", "1", "5", ",", " ", "2", "0", "2", "3", "\n", "z">> }

Room == MaxRecords - (Len(finds) + Len(pubs) + Len(projects) + Len(md_files))

Init ==
    /\ pc = "finds"
    /\ exists = [i \in Inputs |-> "unasked"]
    /\ finds = <<>>
    /\ pubs = <<>>
    /\ projects = <<>>
    /\ md_files = <<>>
    /\ idx = 0
    /\ all_masonry_cards = <<>>
    /\ pub_page_cards = <<>>
    /\ project_page_cards = <<>>
    /\ writings = <<>>
    /\ \E intact \in [Targets -> BOOLEAN] :
          files = [f \in Targets |-> Document(MarkerOf(f), intact[f])]
    /\ pages = {}
    /\ printed = <<>>
    /\ http_log = <<>>
    /\ fetched = <<>>
    /\ returned = [f \in Targets |-> "none"]
    /\ raised = NotRaised
    /\ IdleSplice
    /\ IdleCards
    /\ IdleMd
    /\ IdleEx
    /\ IdleSlug

otherVars == <<spliceVars, cardVars, mdVars, exVars, slugVars>>

\* The call update_html_file(ROOT_DIR / f, marker, content) of build()
SpliceInto(f, content) ==
    LET r == update_html_file(files[f], MarkerOf(f), content)
    IN  /\ files' = [files EXCEPT ![f] = r.html]
        /\ returned' = [returned EXCEPT ![f] = r.ret]
        /\ printed' = printed \o (IF r.warning
                                  THEN <<"Warning: Markers not found for " \o MarkerOf(f)>>
                                  ELSE <<>>)

\* metadata = fetch_metadata(item.get('url')) and delay(0.5): what they leave
\* in the logs.  An exception that leaves fetch_metadata ends the run.
\* Fetch with a second GET sent after a failed one
Fetch_with_retry(item, r) ==
    /\ http_log' = http_log
          \o (IF r.sent THEN <<[op |-> "GET", url |-> item.url]>> ELSE <<>>)
          \o (IF r.sent /\ r.failed THEN <<[op |-> "GET", url |-> item.url]>> ELSE <<>>)
          \o (IF r.raised = "none" THEN <<[op |-> "delay", url |-> None]>> ELSE <<>>)
    /\ printed' = printed \o (IF r.failed /\ r.raised = "none" THEN <<"Error">> ELSE <<>>)
    /\ fetched' = IF r.raised = "none"
                  THEN Append(fetched, [failed |-> r.failed, metadata |-> r.metadata])
                  ELSE fetched
    /\ raised' = IF r.raised = "none" THEN raised
                 ELSE [exception |-> r.raised, in |-> "fetch_metadata"]

Fetch(item, r) ==
    /\ http_log' = http_log
          \o (IF r.sent THEN <<[op |-> "GET", url |-> item.url]>> ELSE <<>>)
          \o (IF r.raised = "none" THEN <<[op |-> "delay", url |-> None]>> ELSE <<>>)
    /\ printed' = printed \o (IF r.failed /\ r.raised = "none" THEN <<"Error">> ELSE <<>>)
    /\ fetched' = IF r.raised = "none"
                  THEN Append(fetched, [failed |-> r.failed, metadata |-> r.metadata])
                  ELSE fetched
    /\ raised' = IF r.raised = "none" THEN raised
                 ELSE [exception |-> r.raised, in |-> "fetch_metadata"]

LoadFinds ==
    /\ pc = "finds"
    /\ \/ /\ exists' = [exists EXCEPT !["finds.json"] = "absent"]
          /\ pc' = "publications"
          /\ UNCHANGED <<finds, idx>>
       \/ /\ exists' = [exists EXCEPT !["finds.json"] = "present"]
          /\ \E list \in SeqsUpTo(FindRecords, Room) :
                /\ finds' = list
                /\ pc' = IF list = <<>> THEN "publications" ELSE "find_loop"
          /\ idx' = 1
    /\ UNCHANGED <<pubs, projects, md_files, all_masonry_cards, pub_page_cards,
                   project_page_cards, writings, files, pages, printed, http_log, fetched,
                   returned, raised, otherVars>>

ProcessFind ==
    /\ pc = "find_loop"
    /\ LET item == finds[idx]
       IN  \E response \in Responses(item.url, Pages) :
              LET r == fetch_metadata(item.url, response)
              IN  /\ Fetch(item, r)
                  /\ IF r.raised /= "none"
                     THEN /\ pc' = "crashed"
                          /\ UNCHANGED <<all_masonry_cards, idx>>
                     ELSE /\ all_masonry_cards' =
                                Append(all_masonry_cards, generate_find_card(item, r.metadata))
                          /\ idx' = idx + 1
                          /\ pc' = IF idx = Len(finds) THEN "publications" ELSE "find_loop"
    /\ UNCHANGED <<exists, finds, pubs, projects, md_files, pub_page_cards,
                   project_page_cards, writings, files, pages, returned, otherVars>>

LoadPublications ==
    /\ pc = "publications"
    /\ \/ /\ exists' = [exists EXCEPT !["publications.json"] = "absent"]
          /\ pc' = "projects"
          /\ UNCHANGED <<pubs, idx, pub_page_cards>>
       \/ /\ exists' = [exists EXCEPT !["publications.json"] = "present"]
          /\ \E list \in SeqsUpTo(PublicationRecords, Room) :
                /\ pubs' = list
                /\ pc' = IF list = <<>> THEN "pub_splice" ELSE "pub_loop"
          /\ pub_page_cards' = <<>>
          /\ idx' = 1
    /\ UNCHANGED <<finds, projects, md_files, all_masonry_cards, project_page_cards,
                   writings, files, pages, printed, http_log, fetched, returned, raised,
                   otherVars>>

ProcessPublication ==
    /\ pc = "pub_loop"
    /\ LET item == pubs[idx]
       IN  \E response \in Responses(item.url, Pages) :
              LET r == fetch_metadata(item.url, response)
              IN  /\ Fetch(item, r)
                  /\ IF r.raised /= "none"
                     THEN /\ pc' = "crashed"
                          /\ UNCHANGED <<all_masonry_cards, pub_page_cards, idx>>
                     ELSE /\ all_masonry_cards' =
                                Append(all_masonry_cards,
                                       generate_publication_masonry_card(item, r.metadata))
                          /\ pub_page_cards' =
                                Append(pub_page_cards,
                                       generate_publication_card(item, r.metadata))
                          /\ idx' = idx + 1
                          /\ pc' = IF idx = Len(pubs) THEN "pub_splice" ELSE "pub_loop"
    /\ UNCHANGED <<exists, finds, pubs, projects, md_files, project_page_cards, writings,
                   files, pages, returned, otherVars>>

\* What build() does after update_html_file has returned ret: it prints a
\* line when ret is True and goes on to next either way.
AfterSplice(ret, next) == next

SplicePublications ==
    /\ pc = "pub_splice"
    /\ SpliceInto("publications.html", Concat(pub_page_cards))
    /\ pc' = AfterSplice(returned'["publications.html"], "projects")
    /\ UNCHANGED <<exists, finds, pubs, projects, md_files, idx, all_masonry_cards,
                   pub_page_cards, project_page_cards, writings, pages, http_log, fetched,
                   raised, otherVars>>

LoadProjects ==
    /\ pc = "projects"
    /\ \/ /\ exists' = [exists EXCEPT !["projects.json"] = "absent"]
          /\ pc' = "writings"
          /\ UNCHANGED <<projects, idx, project_page_cards>>
       \/ /\ exists' = [exists EXCEPT !["projects.json"] = "present"]
          /\ \E list \in SeqsUpTo(ProjectRecords, Room) :
                /\ projects' = list
                /\ pc' = IF list = <<>> THEN "project_splice" ELSE "project_loop"
          /\ project_page_cards' = <<>>
          /\ idx' = 1
    /\ UNCHANGED <<finds, pubs, md_files, all_masonry_cards, pub_page_cards, writings,
                   files, pages, printed, http_log, fetched, returned, raised, otherVars>>

\* get_default_project_image() is called when the record has no image;
\* default_image is what random.choice gives then.
ProcessProject ==
    /\ pc = "project_loop"
    /\ LET item == projects[idx]
       IN  \E default_image \in DefaultProjectImages :
              /\ all_masonry_cards' =
                    Append(all_masonry_cards, generate_project_masonry_card(item))
              /\ project_page_cards' =
                    Append(project_page_cards, generate_project_card(item, default_image))
    /\ idx' = idx + 1
    /\ pc' = IF idx = Len(projects) THEN "project_splice" ELSE "project_loop"
    /\ UNCHANGED <<exists, finds, pubs, projects, md_files, pub_page_cards, writings,
                   files, pages, printed, http_log, fetched, returned, raised, otherVars>>

SpliceProjects ==
    /\ pc = "project_splice"
    /\ SpliceInto("projects.html", Concat(project_page_cards))
    /\ pc' = AfterSplice(returned'["projects.html"], "writings")
    /\ UNCHANGED <<exists, finds, pubs, projects, md_files, idx, all_masonry_cards,
                   pub_page_cards, project_page_cards, writings, pages, http_log, fetched,
                   raised, otherVars>>

\* WRITINGS_DIR.exists() and WRITING_TEMPLATE.exists(), then the glob
LoadWritings ==
    /\ pc = "writings"
    /\ \/ /\ exists' = [exists EXCEPT !["writings"] = "absent"]
          /\ pc' = "index"
          /\ UNCHANGED <<md_files, idx>>
       \/ /\ exists' = [exists EXCEPT !["writings"] = "present"]
          /\ \E list \in SeqsUpTo(MdFiles, Room) :
                /\ md_files' = list
                /\ pc' = IF list = <<>> THEN "index" ELSE "writing_loop"
          /\ idx' = 1
    /\ UNCHANGED <<finds, pubs, projects, all_masonry_cards, pub_page_cards,
                   project_page_cards, writings, files, pages, printed, http_log, fetched,
                   returned, raised, otherVars>>

\* One pass of the loop over md_files.  The page is written before the date
\* is parsed; an exception that leaves parse_date_for_sort ends the run.
ProcessWriting ==
    /\ pc = "writing_loop"
    /\ \E parsed \in {parse_writing_markdown(md_files[idx])} :
       \E slug \in {slugify(parsed.title)}, ex \in {excerpt(parsed.content)},
          sort_date \in {parse_date_for_sort(parsed.date)} :
           IF parsed.title = <<>>
           THEN /\ printed' = Append(printed, "Warning: No title found")
                /\ idx' = idx + 1
                /\ pc' = IF idx = Len(md_files) THEN "writing_splice" ELSE "writing_loop"
                /\ UNCHANGED <<pages, writings, all_masonry_cards, raised>>
           ELSE /\ pages' = {p \in pages : p.slug /= slug}
                              \cup {[slug |-> slug, html |-> page_html(Template, parsed)]}
                /\ IF sort_date.raised /= "none"
                   THEN /\ pc' = "crashed"
                        /\ raised' = [exception |-> sort_date.raised,
                                      in |-> "parse_date_for_sort"]
                        /\ UNCHANGED <<writings, all_masonry_cards, idx, printed>>
                   ELSE /\ writings' =
                              Append(writings,
                                     [title |-> parsed.title, date |-> parsed.date,
                                      slug |-> slug, excerpt |-> ex,
                                      sort_date |-> sort_date.value])
                        /\ all_masonry_cards' =
                              Append(all_masonry_cards,
                                     generate_writing_masonry_card(parsed.title, parsed.date,
                                                                   slug, ex))
                        /\ idx' = idx + 1
                        /\ pc' = IF idx = Len(md_files) THEN "writing_splice"
                                 ELSE "writing_loop"
                        /\ UNCHANGED <<printed, raised>>
    /\ UNCHANGED <<exists, finds, pubs, projects, md_files, pub_page_cards,
                   project_page_cards, files, http_log, fetched, returned, otherVars>>

\* writings.sort, list_html and the splice into writing.html
SpliceWritings ==
    /\ pc = "writing_splice"
    /\ writings' = sort_newest_first(writings)
    /\ SpliceInto("writing.html",
                  Concat([k \in 1..Len(writings) |->
                            generate_writing_list_item(writings'[k].title, writings'[k].date,
                                                       writings'[k].slug)]))
    /\ pc' = AfterSplice(returned'["writing.html"], "index")
    /\ UNCHANGED <<exists, finds, pubs, projects, md_files, idx, all_masonry_cards,
                   pub_page_cards, project_page_cards, pages, http_log, fetched, raised,
                   otherVars>>

\* The combined grid of index.html, spliced when there is a card
SpliceIndex ==
    /\ pc = "index"
    /\ IF all_masonry_cards /= <<>>
       THEN /\ SpliceInto("index.html", Concat(all_masonry_cards))
            /\ pc' = AfterSplice(returned'["index.html"], "done")
       ELSE /\ pc' = "done"
            /\ UNCHANGED <<files, returned, printed>>
    /\ UNCHANGED <<exists, finds, pubs, projects, md_files, idx, all_masonry_cards,
                   pub_page_cards, project_page_cards, writings, pages, http_log, fetched,
                   raised, otherVars>>

Next ==
    \/ LoadFinds
    \/ ProcessFind
    \/ LoadPublications
    \/ ProcessPublication
    \/ SplicePublications
    \/ LoadProjects
    \/ ProcessProject
    \/ SpliceProjects
    \/ LoadWritings
    \/ ProcessWriting
    \/ SpliceWritings
    \/ SpliceIndex

Spec == Init /\ [][Next]_vars

\* The run is over: build() has returned, or an exception has ended it.
RunEnded == pc \in {"done", "crashed"}

\* C1: when fetch_metadata fails for the URL of a Find or Publication record,
\* no exception leaves it and it returns the empty mapping; the card of the
\* record is the one its own fields and the defaults give; and the loop goes
\* on: every record of the batch has been fetched and rendered once the
\* batch is over.
C1_FetchFailureIsIsolated ==
    /\ raised.in /= "fetch_metadata"
    /\ \A k \in 1..Len(fetched) :
          fetched[k].failed =>
             /\ fetched[k].metadata = EmptyMetadata
             /\ IF k <= Len(finds)
                THEN all_masonry_cards[k] = generate_find_card(finds[k], EmptyMetadata)
                ELSE /\ all_masonry_cards[k] =
                           generate_publication_masonry_card(pubs[k - Len(finds)],
                                                             EmptyMetadata)
                     /\ pub_page_cards[k - Len(finds)] =
                           generate_publication_card(pubs[k - Len(finds)], EmptyMetadata)
    /\ pc = "find_loop" => Len(fetched) = idx - 1 /\ Len(all_masonry_cards) = idx - 1
    /\ pc = "pub_loop" =>
          Len(fetched) = Len(finds) + idx - 1 /\ Len(pub_page_cards) = idx - 1
    /\ pc \notin {"finds", "find_loop"} => Len(fetched) >= Len(finds)
    /\ pc \notin {"finds", "find_loop", "publications", "pub_loop"} =>
          /\ Len(fetched) = Len(finds) + Len(pubs)
          /\ Len(pub_page_cards) = Len(pubs)

\* The fetch for the first of two Finds failed, and the run went on to the
\* end with a card for each.
C1_Witness ==
    /\ pc = "done"
    /\ Len(finds) = 2
    /\ fetched[1].failed
    /\ finds[1].url = PlainUrl
    /\ Len(all_masonry_cards) = 2

\* What build() splices into the region of target document f
ContentOf(f) ==
    CASE f = "publications.html" -> Concat(pub_page_cards)
      [] f = "projects.html" -> Concat(project_page_cards)
      [] f = "writing.html" ->
            Concat([k \in 1..Len(writings) |->
                      generate_writing_list_item(writings[k].title, writings[k].date,
                                                 writings[k].slug)])
      [] f = "index.html" -> Concat(all_masonry_cards)

\* C3: in a run in which a splice has failed, every content type is still
\* processed and every region that has something to receive is still
\* spliced, and at the end of the run every region that was spliced holds
\* the content it was given.
C3_FailedSpliceNeverStopsRun ==
    (RunEnded /\ \E f \in Targets : returned[f] = "False") =>
        /\ \A i \in Inputs : exists[i] /= "unasked"
        /\ exists["publications.json"] = "present" => returned["publications.html"] /= "none"
        /\ exists["projects.json"] = "present" => returned["projects.html"] /= "none"
        /\ md_files /= <<>> => returned["writing.html"] /= "none"
        /\ all_masonry_cards /= <<>> => returned["index.html"] /= "none"
        /\ \A f \in Targets :
              returned[f] = "True" =>
                 files[f] = update_html_file(Document(MarkerOf(f), TRUE), MarkerOf(f),
                                             ContentOf(f)).html

\* The titles parse_writing_markdown finds in the files of the batch
TitleOf(text) == parse_writing_markdown(text).title

\* C6: at the end of a run whose batch of Markdown files has a file without
\* a title, a warning has been printed for each such file and nothing else
\* was made for it, and every file with a title has its page, its masonry
\* card and its entry in the list.
C6_UntitledFileIsSkipped ==
    (RunEnded /\ \E k \in 1..Len(md_files) : TitleOf(md_files[k]) = <<>>) =>
        LET titles == SelectSeq([k \in 1..Len(md_files) |-> TitleOf(md_files[k])],
                                LAMBDA t : t /= <<>>)
        IN  /\ Len(SelectSeq(printed, LAMBDA line : line = "Warning: No title found"))
                 = Len(md_files) - Len(titles)
            /\ Len(writings) = Len(titles)
            /\ \A k \in 1..Len(titles) : \E j \in 1..Len(writings) : writings[j].title = titles[k]
            /\ Len(all_masonry_cards)
                 = Len(finds) + Len(pubs) + Len(projects) + Len(titles)
            /\ {p.slug : p \in pages} = {slugify(titles[k]) : k \in 1..Len(titles)}

\* The numeral of a day of the month
Numeral(n) ==
    IF n < 10 THEN <<DigitSeq[n + 1]>>
    ELSE <<DigitSeq[(n \div 10) + 1], DigitSeq[(n % 10) + 1]>>

\* The years of the dates of MdFiles
ModelYears == {<<"2", "0", "2", "3">>, <<"2", "0", "2", "4">>}

\* The dates 'Month Year' and 'Month Day, Year' of those years, in lower case
MonthDayYearDates ==
    {months[m] \o <<" ">> \o y : m \in 1..12, y \in ModelYears}
    \cup {months[t[1]] \o <<" ">> \o Numeral(t[2]) \o <<",", " ">> \o t[3] :
            t \in {u \in (1..12) \X (1..31) \X ModelYears :
                     u[2] <= DaysInMonth(int(u[3]), u[1])}}

IsMonthDayYear(date) == [i \in 1..Len(date) |-> Lower(date[i])] \in MonthDayYearDates

\* C7: no exception leaves parse_date_for_sort, and the parsed date of every
\* Writing whose date string is not a 'Month [Day,] Year' date is 1970-01-01.
C7_MalformedDateIsEpoch ==
    /\ raised.in /= "parse_date_for_sort"
    /\ \A k \in 1..Len(writings) :
          ~IsMonthDayYear(writings[k].date) => writings[k].sort_date = Epoch

\* The files of the batch in which parse_writing_markdown finds a title
TitledFiles == {k \in 1..Len(md_files) : TitleOf(md_files[k]) /= <<>>}

\* C11: when build() has returned, there are as many generated pages as
\* there are Markdown files with a title, each such file has the page
\* named by its slug, holding its own content, and no two entries of the
\* writing list have the same slug.
C11_OnePagePerTitledFile ==
    pc = "done" =>
        /\ Cardinality(pages) = Cardinality(TitledFiles)
        /\ \A k \in TitledFiles :
              [slug |-> slugify(TitleOf(md_files[k])),
               html |-> page_html(Template, parse_writing_markdown(md_files[k]))] \in pages
        /\ \A j, k \in 1..Len(writings) : writings[j].slug = writings[k].slug => j = k

\* C13: the list spliced into writing.html is newest first: of two entries
\* the one whose parsed date is later comes first, and an entry whose date
\* is not a 'Month [Day,] Year' date comes after every entry whose date is
\* one.
C13_ListIsNewestFirst ==
    returned["writing.html"] = "True" =>
        /\ files["writing.html"]
             = update_html_file(Document("writing", TRUE), "writing",
                                ContentOf("writing.html")).html
        /\ \A j, k \in 1..Len(writings) :
              /\ Later(writings[j].sort_date, writings[k].sort_date) => j < k
              /\ (IsMonthDayYear(writings[j].date) /\ ~IsMonthDayYear(writings[k].date))
                    => j < k

\* The records build() calls fetch_metadata for, in the order of the calls
FetchRecords == finds \o pubs

\* The GET and the delay, in the order they happen
GetEvent(url) == [op |-> "GET", url |-> url]
DelayEvent == [op |-> "delay", url |-> None]

\* The log in which each of the first n records of FetchRecords whose URL
\* satisfies Sends has caused one GET, and each record is followed by the
\* delay
LogOf(n, Sends(_)) ==
    Concat([k \in 1..n |->
              (IF Sends(FetchRecords[k].url) THEN <<GetEvent(FetchRecords[k].url)>> ELSE <<>>)
              \o <<DelayEvent>>])

\* The records fetched so far are the first of FetchRecords, and none is
\* fetched for a Project or a Writing
FetchedInOrder ==
    /\ Len(fetched) <= Len(FetchRecords)
    /\ pc \in {"finds", "find_loop"} => Len(fetched) <= Len(finds)
    /\ pc \in {"project_loop", "project_splice", "writings", "writing_loop",
               "writing_splice", "index", "done"} => Len(fetched) = Len(FetchRecords)

\* C14 as stated: a Find or Publication record causes no GET when its URL
\* is empty or absent and exactly one otherwise, also when the fetch fails;
\* a Project or a Writing causes none; the delay follows the fetch of each
\* record, before the next record's.
C14_OneGetPerUrl ==
    /\ FetchedInOrder
    /\ http_log = LogOf(Len(fetched), Truthy)

\* urllib.request.Request accepts the URL: it is not empty and has a scheme
Requestable(url) == Truthy(url) /\ HasScheme(url)

\* C14, amended: a Find or Publication record causes no GET when its URL is
\* empty or absent or has no scheme, and exactly one otherwise, also when
\* the fetch fails; a Project or a Writing causes none; the delay follows
\* the fetch of each record, before the next record's.
C14_OneGetPerRequestableUrl ==
    /\ FetchedInOrder
    /\ http_log = LogOf(Len(fetched), Requestable)

\* The fetch for the first of two Finds was sent and failed, it was not
\* sent again, and after the delay the second Find's was sent.
C14_Witness ==
    /\ pc = "done"
    /\ Len(finds) = 2
    /\ fetched[1].failed
    /\ ~fetched[2].failed
    /\ http_log = <<GetEvent(PlainUrl), DelayEvent, GetEvent(PlainUrl), DelayEvent>>

====
